---- MODULE Spec2Model ----
(***************************************************************************)
(* Room store and game orchestrator of the party trivia server.            *)
(*                                                                         *)
(* The store (MemStorage) keeps one Room per 4-digit code; the socket      *)
(* handlers of registerRoutes read and mutate it and emit events to one    *)
(* connection or to every connection of the socket.io room of that code.   *)
(* Every handler runs to completion before the next inbound event is       *)
(* handled (all storage calls resolve immediately), so one handler is one  *)
(* action.                                                                 *)
(*                                                                         *)
(* A JavaScript string is a sequence of one-character strings, so that     *)
(* trim(), length and === are computed and not assumed.  A JavaScript      *)
(* object used as a map (players, answers, scores) is a function whose     *)
(* domain is the set of its keys.                                          *)
(***************************************************************************)
EXTENDS Integers, Sequences, FiniteSets

VARIABLES
    rooms,      \* MemStorage.rooms: code -> Room, domain = the active codes
    members,    \* socket.io rooms: code -> connections that did socket.join(code)
    connected,  \* connections whose socket is open
    out,        \* events emitted by the handler that ran last, in order
    submitted,  \* history: code -> roster connections whose answer:submit was
                \*   accepted since the answers of the room were last cleared
    offered,    \* history: code -> the options broadcast when the room last
                \*   went into voting, in their order before the shuffle;
                \*   <<>> from the broadcast of a question until then
    step        \* history: position in the scripted run of SpecScenario; in
                \*   SpecProgress the number of game:question broadcasts to
                \*   the room so far (0 elsewhere)

vars == <<rooms, members, connected, out, submitted, offered, step>>

---------------------------------------------------------------------------
(* Bounds of the model *)

\* number of correct votes a connection is let cast in one run (the server
\* sets no limit)
MaxCorrectVotes == 2

---------------------------------------------------------------------------
(* Text *)

Whitespace == {" "}

RECURSIVE TrimStart(_)
TrimStart(s) ==
    IF s # <<>> /\ Head(s) \in Whitespace THEN TrimStart(Tail(s)) ELSE s

RECURSIVE TrimEnd(_)
TrimEnd(s) ==
    IF s # <<>> /\ s[Len(s)] \in Whitespace
    THEN TrimEnd(SubSeq(s, 1, Len(s) - 1))
    ELSE s

\* String.prototype.trim
Trim(s) == TrimEnd(TrimStart(s))

\* a JavaScript string used as a condition: "" is falsy
Truthy(s) == s # <<>>

Paris == <<"P", "a", "r", "i", "s">>
Lyon == <<"L", "y", "o", "n">>
LyonPadded == <<" ", "L", "y", "o", "n", " ">>
Rome == <<"R", "o", "m", "e">>
Four == <<"4">>
Cat == <<"C", "a", "t">>
Dan == <<"D", "a", "n">>
Ann == <<"A", "n", "n">>
Ben == <<"B", "e", "n">>
Hal == <<"H", "a", "l">>
Blank == <<" ">>
CapitalOfFrance ==
    <<"C", "a", "p", "i", "t", "a", "l", " ", "o", "f", " ",
      "F", "r", "a", "n", "c", "e", "?">>
TwoPlusTwo == <<"2", "+", "2", "?">>

Q1 == [question |-> CapitalOfFrance, correctAnswer |-> Paris]
Q2 == [question |-> TwoPlusTwo, correctAnswer |-> Four]
QBlank == [question |-> Blank, correctAnswer |-> Paris]
QNoAnswer == [question |-> TwoPlusTwo, correctAnswer |-> Blank]

---------------------------------------------------------------------------
(* Sequences *)

Range(s) == {s[i] : i \in DOMAIN s}

\* number of positions of s that hold x
Count(s, x) == Cardinality({i \in DOMAIN s : s[i] = x})

\* s and t hold the same entries the same number of times
SameMultiset(s, t) ==
    /\ Len(s) = Len(t)
    /\ \A x \in Range(s) \cup Range(t) : Count(s, x) = Count(t, x)

\* Swap writing s[j] to position i and leaving position j as it is
SwapOneWay(s, i, j) ==
    [k \in DOMAIN s |-> IF k = i THEN s[j] ELSE s[k]]

Swap(s, i, j) ==
    [k \in DOMAIN s |-> IF k = i THEN s[j] ELSE IF k = j THEN s[i] ELSE s[k]]

\* the connections in a fixed order, used to list the entries of a map
ConnOrder == <<"h", "a", "b", "c", "d">>

\* the connections that send events under Spec
Conns == {"h", "a", "b"}

\* the keys of map f in ConnOrder
KeysOf(f) == SelectSeq(ConnOrder, LAMBDA c : c \in DOMAIN f)

\* f without key k (delete f[k])
Without(f, k) == [x \in DOMAIN f \ {k} |-> f[x]]

\* f with f[k] = v, k added if missing
With(f, k, v) == [x \in DOMAIN f \cup {k} |-> IF x = k THEN v ELSE f[x]]

EmptyMap == [x \in {} |-> 0]

---------------------------------------------------------------------------
(* Payload schemas (zod): parse succeeds exactly when the predicate holds *)

createRoomSchema(data) ==
    Len(data.questions) >= 1 /\ Len(data.questions) <= 100

\* joinRoomSchema without the length of the code
joinRoomSchemaAnyCode(data) ==
    Len(data.name) >= 1 /\ Len(data.name) <= 30

joinRoomSchema(data) ==
    /\ Len(data.code) = 4
    /\ Len(data.name) >= 1 /\ Len(data.name) <= 30

submitAnswerSchema(data) ==
    /\ Len(data.code) = 4
    /\ Len(data.answer) >= 1 /\ Len(data.answer) <= 500

voteAnswerSchema(data) == Len(data.code) = 4

hostActionSchema(data) ==
    /\ Len(data.code) = 4
    /\ data.action \in {"start", "show_voting", "reveal", "next"}

---------------------------------------------------------------------------
(* Room store: MemStorage.  Every operation takes the store R (the map     *)
(* rooms) and returns the store after the call, or the value read.         *)

DigitChar == <<"0", "1", "2", "3", "4", "5", "6", "7", "8", "9">>

\* Number.prototype.toString of a non-negative integer
RECURSIVE NumToString(_)
NumToString(n) ==
    IF n < 10
    THEN <<DigitChar[n + 1]>>
    ELSE Append(NumToString(n \div 10), DigitChar[(n % 10) + 1])

\* generateRoomCode returning its first draw, in use or not
generateRoomCodeFirstDraw(R, draws) ==
    {NumToString(1000 + d) : d \in draws}

\* the codes generateRoomCode can return when Math.floor(Math.random() * 9000)
\* takes its values in draws: the loop leaves only with a code not in use
generateRoomCode(R, draws) ==
    {NumToString(1000 + d) : d \in draws} \ DOMAIN R

\* KeepsQuestion keeping every question
KeepsQuestionAlways(q) == TRUE

\* q.question.trim().length > 0 && q.correctAnswer.trim().length > 0
KeepsQuestion(q) ==
    Len(Trim(q.question)) > 0 /\ Len(Trim(q.correctAnswer)) > 0

createRoom(R, code, hostId, questions) ==
    With(R, code,
         [code |-> code,
          hostId |-> hostId,
          questions |-> SelectSeq(questions, KeepsQuestion),
          currentQuestionIndex |-> 0,
          players |-> EmptyMap,
          answers |-> EmptyMap,
          scores |-> EmptyMap,
          state |-> "waiting"])

hasRoom(R, code) == code \in DOMAIN R

\* updateRoom assigning the updates to every room of the map
updateRoomEverywhere(R, code, updates) ==
    IF hasRoom(R, code)
    THEN [k \in DOMAIN R |->
            [f \in DOMAIN R[k] |->
                IF f \in DOMAIN updates THEN updates[f] ELSE R[k][f]]]
    ELSE R

\* Object.assign(room, updates)
updateRoom(R, code, updates) ==
    IF hasRoom(R, code)
    THEN [R EXCEPT ![code] =
            [f \in DOMAIN R[code] |->
                IF f \in DOMAIN updates THEN updates[f] ELSE R[code][f]]]
    ELSE R

\* this.rooms.delete(code) (called by no handler)
deleteRoom(R, code) ==
    [k \in DOMAIN R \ {code} |-> R[k]]

addPlayerToRoom(R, code, socketId, name) ==
    IF hasRoom(R, code)
    THEN [R EXCEPT ![code].players = With(@, socketId, Trim(name))]
    ELSE R

\* delete room.players[socketId]; delete room.answers[socketId] (called by no
\* handler)
removePlayerFromRoom(R, code, socketId) ==
    IF hasRoom(R, code)
    THEN [R EXCEPT ![code].players = Without(@, socketId),
                   ![code].answers = Without(@, socketId)]
    ELSE R

\* room.players[socketId] as a condition: the key exists and its name is not ""
KnowsPlayer(room, socketId) ==
    socketId \in DOMAIN room.players /\ Truthy(room.players[socketId])

\* submitAnswer without the test of room.players[socketId]
submitAnswerUnchecked(R, code, socketId, answer) ==
    IF hasRoom(R, code)
    THEN [R EXCEPT ![code].answers = With(@, socketId, Trim(answer))]
    ELSE R

submitAnswer(R, code, socketId, answer) ==
    IF hasRoom(R, code) /\ KnowsPlayer(R[code], socketId)
    THEN [R EXCEPT ![code].answers = With(@, socketId, Trim(answer))]
    ELSE R

\* clearAnswers leaving the answers in place
clearAnswersNot(R, code) == R

clearAnswers(R, code) ==
    IF hasRoom(R, code) THEN [R EXCEPT ![code].answers = EmptyMap] ELSE R

\* Object.entries(room.answers) mapped to {name, answer}.  The order of the
\* keys of the object is not kept by the model: the entries come in ConnOrder
\* (every caller shuffles the list it builds from them).
getAllAnswers(R, code) ==
    IF ~hasRoom(R, code)
    THEN <<>>
    ELSE LET room == R[code]
             keys == KeysOf(room.answers)
         IN  [i \in DOMAIN keys |->
                [name |-> IF KnowsPlayer(room, keys[i])
                          THEN room.players[keys[i]]
                          ELSE <<"U", "n", "k", "n", "o", "w", "n">>,
                 answer |-> room.answers[keys[i]]]]

getAnswerCount(R, code) ==
    IF hasRoom(R, code) THEN Cardinality(DOMAIN R[code].answers) ELSE 0

getPlayerCount(R, code) ==
    IF hasRoom(R, code) THEN Cardinality(DOMAIN R[code].players) ELSE 0

\* updatePlayerScore storing the points in place of adding them
updatePlayerScoreSet(R, code, socketId, points) ==
    IF hasRoom(R, code) /\ KnowsPlayer(R[code], socketId)
    THEN [R EXCEPT ![code].scores = With(@, socketId, points)]
    ELSE R

updatePlayerScore(R, code, socketId, points) ==
    IF hasRoom(R, code) /\ KnowsPlayer(R[code], socketId)
    THEN LET old == IF socketId \in DOMAIN R[code].scores
                       /\ R[code].scores[socketId] # 0
                    THEN R[code].scores[socketId]
                    ELSE 0
         IN  [R EXCEPT ![code].scores = With(@, socketId, old + points)]
    ELSE R

\* the orders in which the keys of a map can be listed
RECURSIVE Orders(_)
Orders(S) ==
    IF S = {}
    THEN {<<>>}
    ELSE UNION {{<<x>> \o t : t \in Orders(S \ {x})} : x \in S}

\* { name: room.players[socketId] || 'Unknown', score: score || 0 }
leaderboardEntry(room, socketId) ==
    [name |-> IF KnowsPlayer(room, socketId)
              THEN room.players[socketId]
              ELSE <<"U", "n", "k", "n", "o", "w", "n">>,
     score |-> room.scores[socketId]]

\* getLeaderboard sorting by ascending score
getLeaderboardAscending(R, code) ==
    IF ~hasRoom(R, code)
    THEN {<<>>}
    ELSE LET room == R[code]
             sorted == {o \in Orders(DOMAIN room.scores) :
                          \A i, j \in DOMAIN o :
                              i < j => room.scores[o[i]] <= room.scores[o[j]]}
         IN  {[i \in 1..(IF Len(o) < 3 THEN Len(o) ELSE 3) |->
                 leaderboardEntry(room, o[i])] :
                o \in sorted}

\* getLeaderboard without slice(0, 3)
getLeaderboardWhole(R, code) ==
    IF ~hasRoom(R, code)
    THEN {<<>>}
    ELSE LET room == R[code]
             sorted == {o \in Orders(DOMAIN room.scores) :
                          \A i, j \in DOMAIN o :
                              i < j => room.scores[o[i]] >= room.scores[o[j]]}
         IN  {[i \in DOMAIN o |->
                 leaderboardEntry(room, o[i])] :
                o \in sorted}

\* the results getLeaderboard can return: the entries of room.scores, sorted
\* by descending score, the first three.  The sort is stable, so entries of
\* equal score keep the order of the keys of room.scores, which the model does
\* not keep: every order of the tied entries is a possible result.
getLeaderboard(R, code) ==
    IF ~hasRoom(R, code)
    THEN {<<>>}
    ELSE LET room == R[code]
             sorted == {o \in Orders(DOMAIN room.scores) :
                          \A i, j \in DOMAIN o :
                              i < j => room.scores[o[i]] >= room.scores[o[j]]}
         IN  {[i \in 1..(IF Len(o) < 3 THEN Len(o) ELSE 3) |->
                 leaderboardEntry(room, o[i])] :
                o \in sorted}

\* The two operations below are called by routes.ts and defined in no file
\* of src/: they are modelled from the specification (players other than the
\* host; their number).
getPlayersExcludingHost(R, code) ==
    IF ~hasRoom(R, code)
    THEN <<>>
    ELSE LET room == R[code]
             keys == SelectSeq(KeysOf(room.players),
                               LAMBDA c : c # room.hostId)
         IN  [i \in DOMAIN keys |-> room.players[keys[i]]]

getPlayerCountExcludingHost(R, code) ==
    IF hasRoom(R, code)
    THEN Cardinality(DOMAIN R[code].players \ {R[code].hostId})
    ELSE 0

---------------------------------------------------------------------------
(* Outbound events.  An event is [ev, to, data]: its name, the set of       *)
(* connections it is delivered to, and its payload.                        *)

Emit(ev, to, data) == [ev |-> ev, to |-> to, data |-> data]

NoData == [none |-> TRUE]

\* socket.emit("error", message)
ErrorTo(c, message) == <<Emit("error", {c}, [message |-> message])>>

\* the messages of the error events (routes.ts sends their Hebrew wording)
ErrNoQuestions == "Please provide at least one question with answer"
ErrCreateFailed == "Failed to create room"
ErrRoomNotFound == "Room not found"
ErrJoinFailed == "Failed to join room"
ErrCannotSubmit == "Cannot submit answer right now"
ErrSubmitFailed == "Failed to submit answer"
ErrCannotVote == "Cannot vote right now"
ErrVoteFailed == "Failed to submit vote"
ErrNotAuthorized == "Not authorized to control this room"
ErrNoMoreQuestions == "No more questions"
ErrActionFailed == "Failed to perform action"

\* io.to(code): the connections in the socket.io room of code
InRoom(code) == IF code \in DOMAIN members THEN members[code] ELSE {}

\* socket.join(code)
SocketJoin(M, c, code) == With(M, code, (IF code \in DOMAIN M THEN M[code] ELSE {}) \cup {c})

---------------------------------------------------------------------------
(* Voting options *)

\* room.questions[room.currentQuestionIndex] is defined
HasCurrentQuestion(room) ==
    room.currentQuestionIndex + 1 \in DOMAIN room.questions

\* room.questions[room.currentQuestionIndex] (JavaScript indexes from 0)
CurrentQuestion(room) == room.questions[room.currentQuestionIndex + 1]

\* the submitted answers, flagged false, followed by the correct answer
votingOptions(R, code) ==
    LET answers == getAllAnswers(R, code)
    IN  [i \in DOMAIN answers |->
            [answer |-> answers[i].answer, isCorrect |-> FALSE]]
        \o <<[answer |-> CurrentQuestion(R[code]).correctAnswer,
              isCorrect |-> TRUE]>>

\* ShuffleFrom drawing j = floor(random() * i): position i is never kept
RECURSIVE ShuffleFromBelow(_, _)
ShuffleFromBelow(s, i) ==
    IF i < 2
    THEN {s}
    ELSE UNION {ShuffleFromBelow(Swap(s, i, j), i - 1) : j \in 1..(i - 1)}

\* for (i = length - 1; i > 0; i--) { j = floor(random() * (i + 1)); swap i, j }
\* from position i (counted from 1) downwards: every list the loop can leave
RECURSIVE ShuffleFrom(_, _)
ShuffleFrom(s, i) ==
    IF i < 2
    THEN {s}
    ELSE UNION {ShuffleFrom(Swap(s, i, j), i - 1) : j \in 1..i}

Shuffle(s) == ShuffleFrom(s, Len(s))

\* questionData numbering the questions from 0
questionDataFromZero(room, index) ==
    [question |-> room.questions[index + 1].question,
     questionIndex |-> index,
     totalQuestions |-> Len(room.questions)]

\* the game:question payload of question number index (from 0) of room
questionData(room, index) ==
    [question |-> room.questions[index + 1].question,
     questionIndex |-> index + 1,
     totalQuestions |-> Len(room.questions)]

---------------------------------------------------------------------------
(* History of accepted submissions *)

ClearSubmitted(S, code) ==
    IF code \in DOMAIN S THEN [S EXCEPT ![code] = EmptyMap] ELSE S

\* the answer:submit of roster connection c passed the room and phase checks
NoteSubmitted(S, R, code, c, answer) ==
    IF c \in DOMAIN R[code].players
    THEN [S EXCEPT ![code] = With(@, c, Trim(answer))]
    ELSE S

---------------------------------------------------------------------------
(* Handlers of registerRoutes: one action per inbound event *)

\* socket.on("room:create"); draws bounds the values of the code generator
RoomCreate(c, data, draws) ==
    /\ c \in connected
    /\ UNCHANGED connected
    /\ IF ~createRoomSchema(data)
       THEN /\ out' = ErrorTo(c, ErrCreateFailed)
            /\ UNCHANGED <<rooms, members, submitted, offered>>
       ELSE LET filteredQuestions == SelectSeq(data.questions, KeepsQuestion)
            IN  IF Len(filteredQuestions) = 0
                THEN /\ out' = ErrorTo(c, ErrNoQuestions)
                     /\ UNCHANGED <<rooms, members, submitted, offered>>
                ELSE \E code \in generateRoomCode(rooms, draws) :
                        /\ rooms' = createRoom(rooms, code, c, filteredQuestions)
                        /\ members' = SocketJoin(members, c, code)
                        /\ submitted' = With(submitted, code, EmptyMap)
                        /\ offered' = With(offered, code, <<>>)
                        /\ out' = <<Emit("room:created", {c}, [code |-> code])>>

\* socket.on("room:join")
RoomJoin(c, data) ==
    /\ c \in connected
    /\ UNCHANGED <<connected, submitted, offered>>
    /\ IF ~joinRoomSchema(data)
       THEN /\ out' = ErrorTo(c, ErrJoinFailed)
            /\ UNCHANGED <<rooms, members>>
       ELSE IF ~hasRoom(rooms, data.code)
       THEN /\ out' = ErrorTo(c, ErrRoomNotFound)
            /\ UNCHANGED <<rooms, members>>
       ELSE LET code == data.code
                R1 == addPlayerToRoom(rooms, code, c, data.name)
                M1 == SocketJoin(members, c, code)
                room == R1[code]
                playerNames == getPlayersExcludingHost(R1, code)
                joined == <<Emit("room:joined", {c},
                                 [code |-> code, players |-> playerNames]),
                            Emit("room:players", M1[code] \ {c},
                                 [players |-> playerNames])>>
            IN  /\ rooms' = R1
                /\ members' = M1
                /\ IF room.state = "question"
                   THEN out' = IF HasCurrentQuestion(room)
                               THEN joined \o
                                    <<Emit("game:question", {c},
                                           questionData(room,
                                               room.currentQuestionIndex))>>
                               ELSE joined
                   ELSE IF room.state = "voting"
                   THEN IF HasCurrentQuestion(room)
                        THEN \E shuffled \in Shuffle(votingOptions(R1, code)) :
                                out' = joined \o
                                       <<Emit("game:voting", {c},
                                              [answers |-> shuffled])>>
                        ELSE out' = joined \o ErrorTo(c, ErrJoinFailed)
                   ELSE out' = joined

\* the auto-advance test of answer:submit
AllAnswered(answerCount, playerCount) ==
    answerCount = playerCount /\ playerCount > 0

\* socket.on("answer:submit")
AnswerSubmit(c, data) ==
    /\ c \in connected
    /\ UNCHANGED <<members, connected>>
    /\ IF ~submitAnswerSchema(data)
       THEN /\ out' = ErrorTo(c, ErrSubmitFailed)
            /\ UNCHANGED <<rooms, submitted, offered>>
       ELSE IF ~hasRoom(rooms, data.code)
               \/ rooms[data.code].state # "question"
       THEN /\ out' = ErrorTo(c, ErrCannotSubmit)
            /\ UNCHANGED <<rooms, submitted, offered>>
       ELSE LET code == data.code
                R1 == submitAnswer(rooms, code, c, data.answer)
                S1 == NoteSubmitted(submitted, rooms, code, c, data.answer)
                answerCount == getAnswerCount(R1, code)
                playerCount == getPlayerCountExcludingHost(R1, code)
                players == Emit("room:players", InRoom(code),
                                [players |-> getPlayersExcludingHost(R1, code)])
            IN  IF AllAnswered(answerCount, playerCount)
                THEN IF HasCurrentQuestion(R1[code])
                     THEN \E shuffled \in Shuffle(votingOptions(R1, code)) :
                            /\ rooms' = clearAnswers(
                                 updateRoom(R1, code, [state |-> "voting"]),
                                 code)
                            /\ submitted' = ClearSubmitted(S1, code)
                            /\ offered' = With(offered, code,
                                               votingOptions(R1, code))
                            /\ out' = <<players,
                                        Emit("game:voting", InRoom(code),
                                             [answers |-> shuffled])>>
                     ELSE /\ rooms' = R1
                          /\ submitted' = S1
                          /\ UNCHANGED offered
                          /\ out' = <<players>> \o ErrorTo(c, ErrSubmitFailed)
                ELSE /\ rooms' = R1
                     /\ submitted' = S1
                     /\ UNCHANGED offered
                     /\ out' = <<players>>

\* the score of connection c in room (0 when it has none)
ScoreOf(room, c) == IF c \in DOMAIN room.scores THEN room.scores[c] ELSE 0

\* the points of a correct vote
VotePoints == 10

\* IsCorrectVote taking every vote for a correct one
IsCorrectVoteAlways(room, selectedAnswer) == TRUE

\* selectedAnswer === currentQuestion.correctAnswer
IsCorrectVote(room, selectedAnswer) ==
    selectedAnswer = CurrentQuestion(room).correctAnswer

\* CannotVote without the test of the phase
CannotVoteUnknownRoomOnly(R, code) == ~hasRoom(R, code)

\* !room || room.state !== "voting"
CannotVote(R, code) == ~hasRoom(R, code) \/ R[code].state # "voting"

\* socket.on("answer:vote")
AnswerVote(c, data) ==
    /\ c \in connected
    /\ UNCHANGED <<members, connected, submitted, offered>>
    /\ IF ~voteAnswerSchema(data)
       THEN /\ out' = ErrorTo(c, ErrVoteFailed)
            /\ UNCHANGED rooms
       ELSE IF CannotVote(rooms, data.code)
       THEN /\ out' = ErrorTo(c, ErrCannotVote)
            /\ UNCHANGED rooms
       ELSE IF ~HasCurrentQuestion(rooms[data.code])
       THEN /\ out' = ErrorTo(c, ErrVoteFailed)
            /\ UNCHANGED rooms
       ELSE /\ out' = <<>>
            /\ IF IsCorrectVote(rooms[data.code], data.selectedAnswer)
               THEN /\ ScoreOf(rooms[data.code], c) + VotePoints
                         <= MaxCorrectVotes * VotePoints
                    /\ rooms' = updatePlayerScore(rooms, data.code, c,
                                                  VotePoints)
               ELSE UNCHANGED rooms

\* NotAuthorized without the comparison of the sender with the host
NotAuthorizedAnySender(R, code, c) == ~hasRoom(R, code)

\* !room || room.hostId !== socket.id
NotAuthorized(R, code, c) == ~hasRoom(R, code) \/ R[code].hostId # c

\* NoQuestionLeft ending the game at every next
NoQuestionLeftAlways(room, newIndex) == TRUE

\* NoQuestionLeft never ending the game
NoQuestionLeftNever(room, newIndex) == FALSE

\* newIndex >= room.questions.length
NoQuestionLeft(room, newIndex) == newIndex >= Len(room.questions)

\* socket.on("host:action")
HostAction(c, data) ==
    /\ c \in connected
    /\ UNCHANGED <<members, connected>>
    /\ IF ~hostActionSchema(data)
       THEN /\ out' = ErrorTo(c, ErrActionFailed)
            /\ UNCHANGED <<rooms, submitted, offered>>
       ELSE IF NotAuthorized(rooms, data.code, c)
       THEN /\ out' = ErrorTo(c, ErrNotAuthorized)
            /\ UNCHANGED <<rooms, submitted, offered>>
       ELSE LET code == data.code
                room == rooms[code]
            IN  CASE data.action = "start" ->
                       IF room.currentQuestionIndex >= Len(room.questions)
                       THEN /\ out' = ErrorTo(c, ErrNoMoreQuestions)
                            /\ UNCHANGED <<rooms, submitted, offered>>
                       ELSE /\ rooms' = updateRoom(clearAnswers(rooms, code),
                                                   code, [state |-> "question"])
                            /\ submitted' = ClearSubmitted(submitted, code)
                            /\ offered' = With(offered, code, <<>>)
                            /\ out' = <<Emit("game:question", InRoom(code),
                                             questionData(room,
                                                 room.currentQuestionIndex))>>
                  [] data.action = "show_voting" ->
                       IF ~HasCurrentQuestion(room)
                       THEN /\ out' = ErrorTo(c, ErrActionFailed)
                            /\ UNCHANGED <<rooms, submitted, offered>>
                       ELSE \E shuffled \in Shuffle(votingOptions(rooms, code)) :
                              /\ rooms' = clearAnswers(
                                   updateRoom(rooms, code, [state |-> "voting"]),
                                   code)
                              /\ submitted' = ClearSubmitted(submitted, code)
                              /\ offered' = With(offered, code,
                                                 votingOptions(rooms, code))
                              /\ out' = <<Emit("game:voting", InRoom(code),
                                               [answers |-> shuffled])>>
                  [] data.action = "reveal" ->
                       /\ rooms' = updateRoom(rooms, code,
                                              [state |-> "revealing"])
                       /\ UNCHANGED <<submitted, offered>>
                       /\ IF ~HasCurrentQuestion(room)
                          THEN out' = ErrorTo(c, ErrActionFailed)
                          ELSE \E leaderboard \in getLeaderboard(rooms, code) :
                                 out' = <<Emit("game:results", InRoom(code),
                                     [correctAnswer |->
                                          CurrentQuestion(room).correctAnswer,
                                      scores |-> <<>>,
                                      leaderboard |-> leaderboard])>>
                  [] data.action = "next" ->
                       LET newIndex == room.currentQuestionIndex + 1
                       IN  IF NoQuestionLeft(room, newIndex)
                           THEN /\ rooms' = updateRoom(rooms, code,
                                                       [state |-> "complete"])
                                /\ UNCHANGED <<submitted, offered>>
                                /\ out' = <<Emit("game:complete", InRoom(code),
                                                 NoData)>>
                           ELSE /\ rooms' = updateRoom(clearAnswers(rooms, code),
                                    code,
                                    [currentQuestionIndex |-> newIndex,
                                     state |-> "question"])
                                /\ submitted' = ClearSubmitted(submitted, code)
                                /\ offered' = With(offered, code, <<>>)
                                \* room.questions[newIndex] undefined: reading
                                \* its question throws, after the update
                                /\ out' = IF newIndex + 1 \in DOMAIN room.questions
                                          THEN <<Emit("game:question",
                                                      InRoom(code),
                                                      questionData(room, newIndex))>>
                                          ELSE ErrorTo(c, ErrActionFailed)

\* Disconnect taking the connection out of every room it plays in
DisconnectRemoving(c) ==
    /\ c \in connected
    /\ connected' = connected \ {c}
    /\ members' = [code \in DOMAIN members |-> members[code] \ {c}]
    /\ rooms' = [code \in DOMAIN rooms |->
                    removePlayerFromRoom(rooms, code, c)[code]]
    /\ out' = <<>>
    /\ UNCHANGED <<submitted, offered>>

\* socket.on("disconnect"): the handler only logs; socket.io takes the closed
\* socket out of every socket.io room
Disconnect(c) ==
    /\ c \in connected
    /\ connected' = connected \ {c}
    /\ members' = [code \in DOMAIN members |-> members[code] \ {c}]
    /\ out' = <<>>
    /\ UNCHANGED <<rooms, submitted, offered>>

---------------------------------------------------------------------------
(* The server under every interleaving of inbound events *)

NoSuchCode == <<"9", "9", "9", "9">>
ShortCode == <<"1", "0", "0">>

\* the values Math.floor(Math.random() * 9000) is let take
Draws == {0}

\* the connection that creates rooms
Creators == {"h"}

CreateInputs ==
    {[questions |-> qs] :
        qs \in {<<Q1, Q2>>, <<QBlank, Q1>>, <<QBlank, QNoAnswer>>, <<>>}}

NamesOf(c) ==
    CASE c = "h" -> {Hal}
      [] c = "a" -> {Ann, Blank}
      [] OTHER -> {Ben}

AnswersOf(c) ==
    CASE c = "a" -> {Paris}
      [] c = "b" -> {LyonPadded}
      [] OTHER -> {Lyon}

\* the codes of no room that connection c sends in room:join and answer:submit
StrayCodes(c) == IF c = "b" THEN {NoSuchCode, ShortCode} ELSE {}

\* the connections whose socket closes
Leavers == {"b"}

VoteInputs == {Paris, Four}

\* the connections that cast votes
Voters == {"a", "b"}

Actions == {"start", "show_voting", "reveal", "next"}

Init ==
    /\ rooms = EmptyMap
    /\ members = EmptyMap
    /\ connected = Conns
    /\ out = <<>>
    /\ submitted = EmptyMap
    /\ offered = EmptyMap
    /\ step = 0

Create ==
    /\ \E c \in Creators, data \in CreateInputs : RoomCreate(c, data, Draws)
    /\ UNCHANGED step

Join ==
    /\ \E c \in Conns :
        \E code \in DOMAIN rooms \cup StrayCodes(c), name \in NamesOf(c) :
            RoomJoin(c, [code |-> code, name |-> name])
    /\ UNCHANGED step

Submit ==
    /\ \E c \in Conns :
        \E code \in DOMAIN rooms \cup StrayCodes(c), answer \in AnswersOf(c) :
            AnswerSubmit(c, [code |-> code, answer |-> answer])
    /\ UNCHANGED step

Vote ==
    /\ \E c \in Voters, code \in DOMAIN rooms, selected \in VoteInputs :
        AnswerVote(c, [code |-> code, selectedAnswer |-> selected])
    /\ UNCHANGED step

Host ==
    /\ \E c \in Conns, code \in DOMAIN rooms, action \in Actions :
        HostAction(c, [code |-> code, action |-> action])
    /\ UNCHANGED step

Leave ==
    /\ \E c \in Leavers : Disconnect(c)
    /\ UNCHANGED step

Next == Create \/ Join \/ Submit \/ Vote \/ Host \/ Leave

Spec == Init /\ [][Next]_vars

---------------------------------------------------------------------------
(* Vocabulary of the properties *)

\* some event named ev is among the events o
HasEvent(o, ev) == \E i \in DOMAIN o : o[i].ev = ev

\* the events named ev among the events o, in order
EventsNamed(o, ev) == SelectSeq(o, LAMBDA e : e.ev = ev)

\* every answer a connection submits under Spec
AllAnswers == UNION {AnswersOf(c) : c \in Conns}

\* the host of room code sent host:action with this action, and this step
\* is what the handler did
HostDid(code, action) ==
    HostAction(rooms[code].hostId, [code |-> code, action |-> action])

\* some connection sent answer:submit for room code, and this step is what
\* the handler did
SomeoneSubmitted(code) ==
    \E c \in Conns, answer \in AllAnswers :
        AnswerSubmit(c, [code |-> code, answer |-> answer])

\* the players of room code other than its host
NonHostPlayers(code) == DOMAIN rooms[code].players \ {rooms[code].hostId}

---------------------------------------------------------------------------
(* C1..C10: the phase state machine *)

\* the phase of room code changes along an edge of the phase table, by the
\* intent the table names for it
TableEdge(code) ==
    LET from == rooms[code].state
        to == rooms'[code].state
        room == rooms[code]
    IN  \/ from = "waiting" /\ to = "question" /\ HostDid(code, "start")
        \/ from = "question" /\ to = "voting"
             /\ (HostDid(code, "show_voting") \/ SomeoneSubmitted(code))
        \/ from = "voting" /\ to = "revealing" /\ HostDid(code, "reveal")
        \/ from = "revealing" /\ to = "question" /\ HostDid(code, "next")
             /\ room.currentQuestionIndex + 1 < Len(room.questions)
        \/ from = "revealing" /\ to = "complete" /\ HostDid(code, "next")
             /\ room.currentQuestionIndex + 1 >= Len(room.questions)

\* C1: every change of a room's phase is one of the five edges of the phase
\* table (waiting->question by start, question->voting by show_voting or by
\* the auto-advance of a submission, voting->revealing by reveal,
\* revealing->question or revealing->complete by next); no step changes the
\* phase along another edge.
C1_OnlyTableEdges ==
    [][\A code \in DOMAIN rooms :
          rooms'[code].state # rooms[code].state => TableEdge(code)]_vars

\* C2: a host:action of a connection that is not the host of the room
\* changes no field of the room, broadcasts nothing, and sends one error
\* event to the sender only.
C2_NonHostActionRejected ==
    [][\A c \in Conns, code \in DOMAIN rooms, action \in Actions :
          (/\ rooms[code].hostId # c
           /\ HostAction(c, [code |-> code, action |-> action]))
          => /\ rooms'[code] = rooms[code]
             /\ out' = ErrorTo(c, ErrNotAuthorized)]_vars

\* C2's case: a player of a room whose game is running has just been refused
\* a host action
C2_Witness ==
    \E code \in DOMAIN rooms :
        /\ rooms[code].state = "question"
        /\ "a" \in DOMAIN rooms[code].players
        /\ rooms[code].hostId # "a"
        /\ out = ErrorTo("a", ErrNotAuthorized)

\* C3: while the phase is question, the submission of a roster player moves
\* the room to voting exactly when it makes the number of distinct roster
\* players that have submitted in the round equal to the number of non-host
\* players, that number being positive.
C3_AdvanceExactlyWhenAllSubmitted ==
    [][\A c \in Conns, code \in DOMAIN rooms, answer \in AllAnswers :
          (/\ rooms[code].state = "question"
           /\ c \in DOMAIN rooms[code].players
           /\ AnswerSubmit(c, [code |-> code, answer |-> answer]))
          => LET submitters == DOMAIN submitted[code] \cup {c}
                 n == Cardinality(NonHostPlayers(code))
             IN  rooms'[code].state = "voting"
                   <=> (Cardinality(submitters) = n /\ n > 0)]_vars

\* C4: a reveal of the host while the phase is not voting leaves the phase
\* as it is and broadcasts no game:results.
C4_RevealOnlyInVoting ==
    [][\A code \in DOMAIN rooms :
          (rooms[code].state # "voting" /\ HostDid(code, "reveal"))
          => /\ rooms'[code].state = rooms[code].state
             /\ ~HasEvent(out', "game:results")]_vars

\* C5: a next of the host while the phase is not revealing leaves the phase
\* and currentQuestionIndex as they are and broadcasts neither game:question
\* nor game:complete.
C5_NextOnlyInRevealing ==
    [][\A code \in DOMAIN rooms :
          (rooms[code].state # "revealing" /\ HostDid(code, "next"))
          => /\ rooms'[code].state = rooms[code].state
             /\ rooms'[code].currentQuestionIndex
                  = rooms[code].currentQuestionIndex
             /\ ~HasEvent(out', "game:question")
             /\ ~HasEvent(out', "game:complete")]_vars

\* C6: complete is terminal: once the phase of a room is complete no step
\* changes it, and no step sends game:question, game:voting or game:results.
C6_CompleteIsTerminal ==
    [][\A code \in DOMAIN rooms :
          rooms[code].state = "complete"
          => /\ rooms'[code].state = "complete"
             /\ ~HasEvent(out', "game:question")
             /\ ~HasEvent(out', "game:voting")
             /\ ~HasEvent(out', "game:results")]_vars

\* C7: a vote of a roster player handled while the phase is voting adds
\* exactly 10 to the score of the voter, and changes no other score, when the
\* selected answer is the correct answer of the current question; any other
\* vote leaves every score as it is.
C7_CorrectVoteScoresTen ==
    [][\A c \in Conns, code \in DOMAIN rooms, selected \in VoteInputs :
          (/\ rooms[code].state = "voting"
           /\ c \in DOMAIN rooms[code].players
           /\ AnswerVote(c, [code |-> code, selectedAnswer |-> selected]))
          => IF selected = CurrentQuestion(rooms[code]).correctAnswer
             THEN /\ ScoreOf(rooms'[code], c) = ScoreOf(rooms[code], c) + 10
                  /\ \A d \in Conns \ {c} :
                        ScoreOf(rooms'[code], d) = ScoreOf(rooms[code], d)
             ELSE rooms'[code].scores = rooms[code].scores]_vars

\* the option list is that of round answers plus the correct answer: one
\* entry more than there are answers, one entry flagged correct, that entry
\* holding the correct answer of the current question
WellFormedOptions(options, room, nAnswers) ==
    /\ Len(options) = nAnswers + 1
    /\ Cardinality({i \in DOMAIN options : options[i].isCorrect}) = 1
    /\ \A i \in DOMAIN options :
          options[i].isCorrect
          => options[i].answer = CurrentQuestion(room).correctAnswer

\* the option list of the one game:voting among the events o
BroadcastOptions(o) == EventsNamed(o, "game:voting")[1].data.answers

\* C8: the option list broadcast at a transition into voting, by show_voting
\* or by auto-advance, has one entry per roster player that submitted an
\* answer in the round and one more, and exactly one entry is flagged
\* correct, which holds the correct answer of the current question.
C8_OptionsAreAnswersPlusOne ==
    [][\A code \in DOMAIN rooms :
          /\ (HostDid(code, "show_voting") /\ HasEvent(out', "game:voting"))
             => WellFormedOptions(BroadcastOptions(out'), rooms[code],
                                  Cardinality(DOMAIN submitted[code]))
          /\ \A c \in Conns, answer \in AllAnswers :
                (/\ AnswerSubmit(c, [code |-> code, answer |-> answer])
                 /\ HasEvent(out', "game:voting"))
                => WellFormedOptions(BroadcastOptions(out'), rooms[code],
                      Cardinality(DOMAIN NoteSubmitted(submitted, rooms, code,
                                                       c, answer)[code]))]_vars

\* the options that hold the answers of map sub (connection -> answer),
\* flagged false, and the correct answer of room, flagged true
ExpectedOptions(sub, room) ==
    LET keys == KeysOf(sub)
    IN  [i \in DOMAIN keys |-> [answer |-> sub[keys[i]], isCorrect |-> FALSE]]
        \o <<[answer |-> CurrentQuestion(room).correctAnswer,
              isCorrect |-> TRUE]>>

\* C9: whatever the order in which the submissions of the roster players of
\* a round are handled, the room moves to voting in the handler of the
\* submission after which every roster player has submitted, not earlier,
\* and in that handler game:voting is broadcast once, with the answers of
\* all of them plus the correct answer.
C9_SameOutcomeInEveryOrder ==
    [][\A c \in Conns, code \in DOMAIN rooms, answer \in AllAnswers :
          (/\ rooms[code].state = "question"
           /\ c \in DOMAIN rooms[code].players
           /\ AnswerSubmit(c, [code |-> code, answer |-> answer]))
          => LET sub == NoteSubmitted(submitted, rooms, code, c, answer)[code]
                 all == DOMAIN sub = DOMAIN rooms[code].players
             IN  /\ rooms'[code].state = "voting" <=> all
                 /\ all => /\ Len(EventsNamed(out', "game:voting")) = 1
                           /\ SameMultiset(BroadcastOptions(out'),
                                  ExpectedOptions(sub, rooms[code]))]_vars

---------------------------------------------------------------------------
(* The scenario of the specification, run as a script: step counts the     *)
(* scripted intents handled so far.  Host h creates the room, a joins as   *)
(* Ann and b as Ben; round one is the scenario's; round two is any round    *)
(* the two players and the host can play.                                  *)

TheCode == NumToString(1000)
Everyone == {"h", "a", "b"}

ScenarioName(c) == IF c = "a" THEN Ann ELSE Ben
ScenarioAnswer(c) == IF c = "a" THEN Paris ELSE Lyon
RoundTwoAnswers == {Four, Lyon, Paris, Rome, Blank}

ScCreate ==
    /\ step = 0
    /\ RoomCreate("h", [questions |-> <<Q1, Q2>>], Draws)
    /\ step' = 1

ScJoin ==
    /\ step \in {1, 2}
    /\ \E c \in {"a", "b"} :
          /\ c \notin DOMAIN rooms[TheCode].players
          /\ RoomJoin(c, [code |-> TheCode, name |-> ScenarioName(c)])
    /\ step' = step + 1

ScStart ==
    /\ step = 3
    /\ HostAction("h", [code |-> TheCode, action |-> "start"])
    /\ step' = 4

ScSubmit ==
    /\ step \in {4, 5}
    /\ \E c \in {"a", "b"} :
          /\ c \notin DOMAIN submitted[TheCode]
          /\ AnswerSubmit(c, [code |-> TheCode, answer |-> ScenarioAnswer(c)])
    /\ step' = step + 1

ScVoteBen ==
    /\ step = 6
    /\ AnswerVote("b", [code |-> TheCode, selectedAnswer |-> Paris])
    /\ step' = 7

ScVoteAnn ==
    /\ step = 7
    /\ AnswerVote("a", [code |-> TheCode, selectedAnswer |-> Lyon])
    /\ step' = 8

ScReveal ==
    /\ step = 8
    /\ HostAction("h", [code |-> TheCode, action |-> "reveal"])
    /\ step' = 9

ScNext ==
    /\ step = 9
    /\ HostAction("h", [code |-> TheCode, action |-> "next"])
    /\ step' = 10

ScSubmitTwo ==
    /\ step \in {10, 11}
    /\ \E c \in {"a", "b"}, answer \in RoundTwoAnswers :
          AnswerSubmit(c, [code |-> TheCode, answer |-> answer])
    /\ step' = IF rooms'[TheCode].state = "voting" THEN 12 ELSE 11

ScShowVotingTwo ==
    /\ step \in {10, 11}
    /\ HostAction("h", [code |-> TheCode, action |-> "show_voting"])
    /\ step' = 12

ScVoteTwo ==
    /\ step = 12
    /\ \E c \in {"a", "b"}, selected \in VoteInputs :
          AnswerVote(c, [code |-> TheCode, selectedAnswer |-> selected])
    /\ step' = 12

ScRevealTwo ==
    /\ step = 12
    /\ HostAction("h", [code |-> TheCode, action |-> "reveal"])
    /\ step' = 13

ScNextTwo ==
    /\ step = 13
    /\ HostAction("h", [code |-> TheCode, action |-> "next"])
    /\ step' = 14

ScenarioNext ==
    \/ ScCreate \/ ScJoin \/ ScStart \/ ScSubmit \/ ScVoteBen \/ ScVoteAnn
    \/ ScReveal \/ ScNext \/ ScSubmitTwo \/ ScShowVotingTwo \/ ScVoteTwo
    \/ ScRevealTwo \/ ScNextTwo

SpecScenario == Init /\ [][ScenarioNext]_vars

\* what the scenario yields apart from the size of the option list and the
\* leaderboard: question 1/2 to all, voting with one correct option after the
\* second submission, results with the correct answer, question 2/2, complete
ScenarioRun(nOptions, leaderboard) ==
    /\ step = 4 =>
          out = <<Emit("game:question", Everyone,
                       [question |-> CapitalOfFrance, questionIndex |-> 1,
                        totalQuestions |-> 2])>>
    /\ step = 5 => rooms[TheCode].state = "question"
    /\ step = 6 =>
          /\ rooms[TheCode].state = "voting"
          /\ Len(EventsNamed(out, "game:voting")) = 1
          /\ EventsNamed(out, "game:voting")[1].to = Everyone
          /\ Len(BroadcastOptions(out)) = nOptions
          /\ Cardinality({i \in DOMAIN BroadcastOptions(out) :
                             BroadcastOptions(out)[i].isCorrect}) = 1
    /\ step = 9 =>
          /\ rooms[TheCode].state = "revealing"
          /\ out = <<Emit("game:results", Everyone,
                          [correctAnswer |-> Paris, scores |-> <<>>,
                           leaderboard |-> leaderboard])>>
    /\ step = 10 =>
          /\ rooms[TheCode].state = "question"
          /\ out = <<Emit("game:question", Everyone,
                          [question |-> TwoPlusTwo, questionIndex |-> 2,
                           totalQuestions |-> 2])>>
    /\ step = 14 =>
          /\ rooms[TheCode].state = "complete"
          /\ out = <<Emit("game:complete", Everyone, NoData)>>

\* C10 as stated: the scenario yields question 1/2 to both players, the
\* auto-transition to voting with 2 options of which one is correct, a
\* leaderboard at reveal showing Ben:10 and Ann:0, question 2/2 after next
\* and game:complete with phase complete at the end.
C10_ScenarioAsStated ==
    ScenarioRun(2, <<[name |-> Ben, score |-> 10],
                     [name |-> Ann, score |-> 0]>>)

\* C10 amended: the same run, with 3 options at the auto-transition (the two
\* submitted answers and the correct answer, one flagged correct) and a
\* leaderboard at reveal that holds Ben:10 alone (Ann, who never scored, has
\* no entry).
C10_ScenarioAsRun ==
    ScenarioRun(3, <<[name |-> Ben, score |-> 10]>>)

\* C10's case: the script has run to its end
C10_Witness ==
    /\ step = 14
    /\ rooms[TheCode].state = "complete"
    /\ rooms[TheCode].currentQuestionIndex = 1

---------------------------------------------------------------------------
(* C11..C13: invariants of a room *)

\* C11: in every reachable state of every room,
\* 0 <= currentQuestionIndex <= questions.length.
C11_IndexWithinQuestions ==
    \A code \in DOMAIN rooms :
        /\ 0 <= rooms[code].currentQuestionIndex
        /\ rooms[code].currentQuestionIndex <= Len(rooms[code].questions)

\* C11's case: host next has moved a room on to its last question, and a
\* further next has ended the game there
C11_Witness ==
    \E code \in DOMAIN rooms :
        /\ rooms[code].currentQuestionIndex = 1
        /\ rooms[code].currentQuestionIndex + 1 = Len(rooms[code].questions)
        /\ rooms[code].state = "complete"
        /\ HasEvent(out, "game:complete")

\* C12: in every reachable state of every room, every key of answers is a
\* key of players.
C12_AnswersOfPlayersOnly ==
    \A code \in DOMAIN rooms :
        DOMAIN rooms[code].answers \subseteq DOMAIN rooms[code].players

\* C12's case: an answer:submit has just been handled in a room that holds
\* the answer of one of its two players, and whose host is no player
C12_Witness ==
    \E code \in DOMAIN rooms :
        /\ rooms[code].state = "question"
        /\ DOMAIN rooms[code].players = {"a", "b"}
        /\ DOMAIN rooms[code].answers = {"a"}
        /\ HasEvent(out, "room:players")

\* C13: in every reachable state of every room, hostId is no key of the
\* room's players.
C13_HostNeverPlayer ==
    \A code \in DOMAIN rooms :
        rooms[code].hostId \notin DOMAIN rooms[code].players

---------------------------------------------------------------------------
(* C14: room codes.  Several connections create rooms, with codes drawn    *)
(* from the two ends of the generator's range and one value between.       *)

\* the values Math.floor(Math.random() * 9000) is let take: 0 and 8999 are
\* the least and the greatest it has
CodeDraws == {0, 1, 8999}

OneQuestion == [questions |-> <<Q1>>]

\* a connection creates a room (the generator loops for as long as every
\* code it draws is in use: no step)
CodesCreate ==
    /\ \E c \in Conns : RoomCreate(c, OneQuestion, CodeDraws)
    /\ UNCHANGED step

\* a connection joins one of the rooms
CodesJoin ==
    /\ \E c \in {"a", "b"}, code \in DOMAIN rooms, name \in {Ann} :
        RoomJoin(c, [code |-> code, name |-> name])
    /\ UNCHANGED step

CodesNext == CodesCreate \/ CodesJoin

SpecCodes == Init /\ [][CodesNext]_vars

\* code is a string of exactly 4 decimal digits
FourDigits(code) ==
    /\ Len(code) = 4
    /\ \A i \in DOMAIN code : code[i] \in Range(DigitChar)

\* C14: the code of every room created is a string of exactly 4 decimal
\* digits and is the code of no room active at that moment: the creation
\* adds one room under that code and leaves every other room as it was, so
\* no two active rooms share a code.
C14_FreshFourDigitCode ==
    [][\A e \in Range(out') :
          e.ev = "room:created"
          => /\ FourDigits(e.data.code)
             /\ e.data.code \notin DOMAIN rooms
             /\ DOMAIN rooms' = DOMAIN rooms \cup {e.data.code}
             /\ rooms'[e.data.code].code = e.data.code
             /\ \A other \in DOMAIN rooms : rooms'[other] = rooms[other]]_vars

\* C14's case: a third room has just been created while two rooms, one of
\* them with a player, are active
C14_Witness ==
    /\ Cardinality(DOMAIN rooms) = 3
    /\ HasEvent(out, "room:created")
    /\ \E code \in DOMAIN rooms : DOMAIN rooms[code].players # {}

---------------------------------------------------------------------------
(* C15..C17: the host actions *)

\* the game:question event of question number index (from 0) of room code,
\* as the claims state it
QuestionBroadcast(code, index) ==
    <<[ev |-> "game:question",
       to |-> InRoom(code),
       data |-> [question |-> rooms[code].questions[index + 1].question,
                 questionIndex |-> index + 1,
                 totalQuestions |-> Len(rooms[code].questions)]]>>

\* C15: host start with currentQuestionIndex < questions.length empties
\* answers, sets the phase to question, leaves currentQuestionIndex and scores
\* unchanged, and broadcasts to the whole room the game:question of
\* questions[currentQuestionIndex], numbered currentQuestionIndex + 1, with
\* totalQuestions = questions.length.
C15_StartOpensCurrentQuestion ==
    [][\A code \in DOMAIN rooms :
          (/\ HostDid(code, "start")
           /\ rooms[code].currentQuestionIndex < Len(rooms[code].questions))
          => /\ rooms'[code].answers = EmptyMap
             /\ rooms'[code].state = "question"
             /\ rooms'[code].currentQuestionIndex
                  = rooms[code].currentQuestionIndex
             /\ rooms'[code].scores = rooms[code].scores
             /\ out' = QuestionBroadcast(code,
                                         rooms[code].currentQuestionIndex)]_vars

\* C15's case: the first question has just been broadcast to a host and two
\* players; index 0 is left by next only, so the broadcast is one of start
C15_Witness ==
    \E code \in DOMAIN rooms :
        /\ rooms[code].currentQuestionIndex = 0
        /\ rooms[code].state = "question"
        /\ rooms[code].answers = EmptyMap
        /\ InRoom(code) = {"h", "a", "b"}
        /\ out = QuestionBroadcast(code, 0)

\* C16: host next in phase revealing: if currentQuestionIndex + 1 >=
\* questions.length it sets the phase to complete, leaves currentQuestionIndex
\* unchanged and broadcasts game:complete; otherwise it empties answers,
\* increases currentQuestionIndex by exactly 1, sets the phase to question and
\* broadcasts the game:question of the new index, numbered new index + 1.
C16_NextAdvancesOrCompletes ==
    [][\A code \in DOMAIN rooms :
          (/\ HostDid(code, "next")
           /\ rooms[code].state = "revealing")
          => LET index == rooms[code].currentQuestionIndex
             IN  IF index + 1 >= Len(rooms[code].questions)
                 THEN /\ rooms'[code].state = "complete"
                      /\ rooms'[code].currentQuestionIndex = index
                      /\ Len(out') = 1
                      /\ out'[1].ev = "game:complete"
                      /\ out'[1].to = InRoom(code)
                 ELSE /\ rooms'[code].answers = EmptyMap
                      /\ rooms'[code].currentQuestionIndex = index + 1
                      /\ rooms'[code].state = "question"
                      /\ out' = QuestionBroadcast(code, index + 1)]_vars

\* C16's case: next has just moved a room with a scorer on to its second
\* question
C16_Witness ==
    \E code \in DOMAIN rooms :
        /\ rooms[code].currentQuestionIndex = 1
        /\ rooms[code].state = "question"
        /\ rooms[code].scores # EmptyMap
        /\ out = QuestionBroadcast(code, 1)

\* the entries of leaderboard are in non-increasing order of score
Descending(leaderboard) ==
    \A i, j \in DOMAIN leaderboard :
        i < j => leaderboard[i].score >= leaderboard[j].score

\* the name a leaderboard shows for player k of room: the player's name, or
\* Unknown in place of an empty one
ShownName(room, k) ==
    IF room.players[k] = <<>> THEN <<"U", "n", "k", "n", "o", "w", "n">>
    ELSE room.players[k]

\* leaderboard lists the scorers ks, one entry each, in that order
Lists(leaderboard, ks, room) ==
    /\ Len(leaderboard) = Len(ks)
    /\ \A i \in DOMAIN ks :
          leaderboard[i] = [name |-> ShownName(room, ks[i]),
                            score |-> room.scores[ks[i]]]

\* no scorer left out of ks has a strictly greater score than one in ks
NoneBetterLeftOut(ks, room) ==
    \A k \in DOMAIN room.scores \ Range(ks) :
        \A i \in DOMAIN ks : room.scores[k] <= room.scores[ks[i]]

\* the lists of distinct scorers of room
ScorerLists(room) == UNION {Orders(S) : S \in SUBSET DOMAIN room.scores}

\* leaderboard is a top 3 of the scores of room
IsTopThree(leaderboard, room) ==
    LET n == Cardinality(DOMAIN room.scores)
    IN  /\ Len(leaderboard) = IF n < 3 THEN n ELSE 3
        /\ Descending(leaderboard)
        /\ \E ks \in ScorerLists(room) :
              Lists(leaderboard, ks, room) /\ NoneBetterLeftOut(ks, room)

\* C17: host reveal in phase voting sets the phase to revealing, changes no
\* score, and broadcasts to the whole room one game:results whose correctAnswer
\* is the current question's, whose leaderboard is the top 3 of the scores as
\* they are, and whose scores list is empty.
C17_RevealBroadcastsResults ==
    [][\A code \in DOMAIN rooms :
          (/\ HostDid(code, "reveal")
           /\ rooms[code].state = "voting")
          => /\ rooms'[code].state = "revealing"
             /\ rooms'[code].scores = rooms[code].scores
             /\ Len(out') = 1
             /\ out'[1].ev = "game:results"
             /\ out'[1].to = InRoom(code)
             /\ out'[1].data.correctAnswer
                  = rooms[code].questions[
                        rooms[code].currentQuestionIndex + 1].correctAnswer
             /\ out'[1].data.scores = <<>>
             /\ IsTopThree(out'[1].data.leaderboard, rooms[code])]_vars

\* C17's case: the results of a round have just been broadcast to a room
\* with two scorers of different scores
C17_Witness ==
    \E code \in DOMAIN rooms :
        /\ rooms[code].state = "revealing"
        /\ Cardinality(DOMAIN rooms[code].scores) = 2
        /\ \E e \in Range(out) :
              /\ e.ev = "game:results"
              /\ Len(e.data.leaderboard) = 2
              /\ e.data.leaderboard[1].score > e.data.leaderboard[2].score

---------------------------------------------------------------------------
(* C18: getLeaderboard.  A room of four players in phase voting, with      *)
(* every assignment of scores to some of them; the host reveals.           *)

\* the greatest number of correct votes behind a score of the room
MaxBoardVotes == 3

BoardPlayers == [a |-> Ann, b |-> Ben, c |-> Cat, d |-> Dan]

\* the scores a player can have: 10 for each correct vote
BoardScores == {VotePoints * n : n \in 1..MaxBoardVotes}

\* a room as four joins, a start, a show_voting and some votes leave it
BoardRoom(scores) ==
    [code |-> TheCode,
     hostId |-> "h",
     questions |-> <<Q1, Q2>>,
     currentQuestionIndex |-> 0,
     players |-> BoardPlayers,
     answers |-> EmptyMap,
     scores |-> scores,
     state |-> "voting"]

BoardInit ==
    /\ \E S \in SUBSET DOMAIN BoardPlayers :
          \E scores \in [S -> BoardScores] :
              rooms = With(EmptyMap, TheCode, BoardRoom(scores))
    /\ members = With(EmptyMap, TheCode, {"h"} \cup DOMAIN BoardPlayers)
    /\ connected = {"h"} \cup DOMAIN BoardPlayers
    /\ out = <<>>
    /\ submitted = With(EmptyMap, TheCode, EmptyMap)
    /\ offered = With(EmptyMap, TheCode,
                      <<[answer |-> Q1.correctAnswer, isCorrect |-> TRUE]>>)
    /\ step = 0

BoardReveal ==
    /\ HostAction("h", [code |-> TheCode, action |-> "reveal"])
    /\ UNCHANGED step

SpecBoard == BoardInit /\ [][BoardReveal]_vars

\* the leaderboards in the events of the last handler
Leaderboards ==
    {e.data.leaderboard : e \in {x \in Range(out) : x.ev = "game:results"}}

\* C18: getLeaderboard returns at most 3 entries, each the name and score of
\* a different scorer, in non-increasing order of score, and no connection
\* left out of the result has a strictly greater score than one listed.
C18_LeaderboardIsTopThree ==
    \A leaderboard \in Leaderboards :
        /\ Len(leaderboard) <= 3
        /\ Descending(leaderboard)
        /\ \E ks \in ScorerLists(rooms[TheCode]) :
              /\ Lists(leaderboard, ks, rooms[TheCode])
              /\ NoneBetterLeftOut(ks, rooms[TheCode])

\* C18's case: of four scorers three are listed and the one
\* left out has a strictly smaller score than the last one listed
C18_Witness ==
    /\ Cardinality(DOMAIN rooms[TheCode].scores) = 4
    /\ \E leaderboard \in Leaderboards :
          /\ Len(leaderboard) = 3
          /\ \E k \in DOMAIN rooms[TheCode].scores :
                rooms[TheCode].scores[k] < leaderboard[3].score

---------------------------------------------------------------------------
(* C19, C20: what the handlers leave alone *)

\* some connection sent answer:vote for room code, and this step is what the
\* handler did
SomeoneVoted(code) ==
    \E c \in Conns, selected \in VoteInputs :
        AnswerVote(c, [code |-> code, selectedAnswer |-> selected])

\* C19: the scores of a room are changed only by an answer:vote handled
\* while the phase is voting; every other step leaves them as they are, and a
\* vote takes no score away, so scores accumulate across rounds.
C19_ScoresChangeOnlyByVote ==
    [][\A code \in DOMAIN rooms :
          /\ code \in DOMAIN rooms'
          /\ \A k \in DOMAIN rooms[code].scores :
                /\ k \in DOMAIN rooms'[code].scores
                /\ rooms'[code].scores[k] >= rooms[code].scores[k]
          /\ rooms'[code].scores # rooms[code].scores
             => /\ SomeoneVoted(code)
                /\ rooms[code].state = "voting"]_vars

\* C19's case: in its second round a room holds a score of two correct votes
C19_Witness ==
    \E code \in DOMAIN rooms :
        /\ rooms[code].currentQuestionIndex = 1
        /\ rooms[code].state = "voting"
        /\ \E k \in DOMAIN rooms[code].scores :
              rooms[code].scores[k] = 2 * VotePoints

\* every code a connection sends in answer:submit under Spec
SubmitCodes == DOMAIN rooms \cup UNION {StrayCodes(c) : c \in Conns}

\* C20: an answer:submit changes the answers of a room only when the room's
\* phase is question and the sender is a key of its players; in every other
\* case (other phase, unknown room, sender not in the roster) the answers,
\* phase and scores of every room are unchanged and no game:voting is
\* broadcast.
C20_SubmitOnlyByRosterInQuestion ==
    [][\A c \in Conns, code \in SubmitCodes, answer \in AllAnswers :
          (/\ AnswerSubmit(c, [code |-> code, answer |-> answer])
           /\ ~(/\ code \in DOMAIN rooms
                /\ rooms[code].state = "question"
                /\ c \in DOMAIN rooms[code].players))
          => /\ \A r \in DOMAIN rooms :
                   /\ rooms'[r].answers = rooms[r].answers
                   /\ rooms'[r].state = rooms[r].state
                   /\ rooms'[r].scores = rooms[r].scores
             /\ ~HasEvent(out', "game:voting")]_vars

---------------------------------------------------------------------------
(* C21..C24: joining a room *)

\* connection c sent room:join for code under some name, and this step is
\* what the handler did
Joined(c, code) ==
    \E name \in NamesOf(c) : RoomJoin(c, [code |-> code, name |-> name])

\* C21: a connection that joins while the room's phase is question is sent,
\* to itself only, one game:question with the payload the room received for
\* the round: the current question's text, questionIndex =
\* currentQuestionIndex + 1 and totalQuestions = questions.length.
C21_LateJoinerGetsQuestion ==
    [][\A c \in Conns, code \in DOMAIN rooms :
          (Joined(c, code) /\ rooms[code].state = "question")
          => LET sent == EventsNamed(out', "game:question")
                 index == rooms[code].currentQuestionIndex
             IN  /\ Len(sent) = 1
                 /\ sent[1].to = {c}
                 /\ sent[1].data = QuestionBroadcast(code, index)[1].data]_vars

\* C21's case: b has just joined a room in its second round, after a
C21_Witness ==
    \E code \in DOMAIN rooms :
        /\ rooms[code].state = "question"
        /\ rooms[code].currentQuestionIndex = 1
        /\ DOMAIN rooms[code].players = {"a", "b"}
        /\ \E e \in Range(out) : e.ev = "room:joined" /\ e.to = {"b"}
        /\ \E e \in Range(out) : e.ev = "game:question" /\ e.to = {"b"}

\* C22: a connection that joins while the room's phase is voting is sent a
\* game:voting whose options are, as a multiset of (answer, isCorrect), the
\* options broadcast to the room when it went into voting.
C22_LateJoinerGetsSameOptions ==
    [][\A c \in Conns, code \in DOMAIN rooms :
          (Joined(c, code) /\ rooms[code].state = "voting")
          => \E e \in Range(out') :
                /\ e.ev = "game:voting"
                /\ e.to = {c}
                /\ SameMultiset(e.data.answers, offered[code])]_vars

\* C23: a room:join naming a code of no room adds no player to any room,
\* creates no room and sends one error to the sender only, which is not the
\* error sent for a malformed code.
C23_UnknownCodeRejected ==
    [][\A c \in Conns :
          \A code \in StrayCodes(c) \ DOMAIN rooms :
              Joined(c, code)
              => /\ rooms' = rooms
                 /\ members' = members
                 /\ Len(out') = 1
                 /\ out'[1].ev = "error"
                 /\ out'[1].to = {c}
                 /\ out'[1].data.message = ErrRoomNotFound
                      <=> Len(code) = 4]_vars

\* C23's case: b, player of a room with another player in it, has just been
\* told that the room of the code it sent was not found
C23_Witness ==
    /\ \E code \in DOMAIN rooms : DOMAIN rooms[code].players = {"a", "b"}
    /\ out = ErrorTo("b", ErrRoomNotFound)

\* the names of the connections ks of room code, one entry for each, as a
\* list in some order
NamesOfKeys(code, ks, names) ==
    \E o \in Orders(ks) :
        names = [i \in DOMAIN o |-> rooms'[code].players[o[i]]]

\* C24: on a successful join the joiner becomes a key of players, and the
\* players list of room:joined (to the joiner) and of room:players (to the
\* other members) is the roster after the join: one entry for each connection
\* of players, the joiner's among them.
C24_JoinBroadcastsRoster ==
    [][\A c \in Conns, code \in DOMAIN rooms :
          Joined(c, code)
          => LET joined == EventsNamed(out', "room:joined")
                 players == EventsNamed(out', "room:players")
                 roster == DOMAIN rooms'[code].players
             IN  /\ c \in roster
                 /\ Len(joined) = 1
                 /\ joined[1].to = {c}
                 /\ NamesOfKeys(code, roster, joined[1].data.players)
                 /\ Len(players) = 1
                 /\ players[1].to = members'[code] \ {c}
                 /\ players[1].data.players = joined[1].data.players]_vars

---------------------------------------------------------------------------
(* C25..C28: rejected and ignored intents *)

\* text s holds nothing but white space
BlankText(s) == \A i \in DOMAIN s : s[i] \in Whitespace

\* question q has an empty prompt or an empty correct answer after trimming
BlankQuestion(q) == BlankText(q.question) \/ BlankText(q.correctAnswer)

\* C25: a room:create whose questions all have an empty prompt or an empty
\* correct answer after trimming creates no room and sends one error to the
\* sender; every room has a non-empty list of questions, none of them with
\* an empty prompt or an empty correct answer.
C25_BlankQuestionsFiltered ==
    [][/\ \A c \in Creators, data \in CreateInputs :
             (/\ RoomCreate(c, data, Draws)
              /\ \A q \in Range(data.questions) : BlankQuestion(q))
             => /\ rooms' = rooms
                /\ members' = members
                /\ Len(out') = 1
                /\ out'[1].ev = "error"
                /\ out'[1].to = {c}
       /\ \A code \in DOMAIN rooms' :
             /\ rooms'[code].questions # <<>>
             /\ \A q \in Range(rooms'[code].questions) : ~BlankQuestion(q)]_vars

\* C25's case: a room has just been created from a list of two questions,
\* the first with a blank prompt, and holds the second alone
C25_Witness ==
    \E code \in DOMAIN rooms :
        /\ rooms[code].questions = <<Q1>>
        /\ out = <<Emit("room:created", {rooms[code].hostId}, [code |-> code])>>

\* text t is shorter than 2 characters, holds digits only, or repeats one
\* character
WeakAnswer(t) ==
    \/ Len(t) < 2
    \/ \A i \in DOMAIN t : t[i] \in Range(DigitChar)
    \/ \A i \in DOMAIN t : t[i] = t[1]

\* C26: an answer that, after trimming, is shorter than 2 characters, holds
\* digits only or repeats a single character is rejected: no room stores it
\* in answers and no game:voting carries it as a submitted option.
C26_WeakAnswersRejected ==
    /\ \A code \in DOMAIN rooms :
          \A k \in DOMAIN rooms[code].answers :
              ~WeakAnswer(rooms[code].answers[k])
    /\ \A e \in Range(out) :
          e.ev = "game:voting"
          => \A i \in DOMAIN e.data.answers :
                e.data.answers[i].isCorrect
                \/ ~WeakAnswer(e.data.answers[i].answer)

\* C27: when an intent is answered with an error event, no field of any room
\* changes and every event of the handler goes to the sender alone.
C27_ErrorsChangeNothing ==
    [][HasEvent(out', "error")
       => /\ rooms' = rooms
          /\ \E c \in Conns : \A e \in Range(out') : e.to = {c}]_vars

\* C27's case: in a room whose round is running, with an answer in, player a
\* has just been refused a vote
C27_Witness ==
    \E code \in DOMAIN rooms :
        /\ rooms[code].state = "question"
        /\ rooms[code].answers # EmptyMap
        /\ out = ErrorTo("a", ErrCannotVote)

---------------------------------------------------------------------------
(* C29, C30: the answers of a round and the shuffle of the options *)

\* C29: right after every transition of a room into phase question (start or
\* next) and into phase voting (show_voting or auto-advance), the room's
\* answers are empty.
C29_AnswersEmptyAfterTransition ==
    [][\A code \in DOMAIN rooms :
          (/\ rooms'[code].state \in {"question", "voting"}
           /\ \/ rooms'[code].state # rooms[code].state
              \/ /\ \E action \in {"start", "next", "show_voting"} :
                       HostDid(code, action)
                 /\ ~HasEvent(out', "error"))
          => rooms'[code].answers = EmptyMap]_vars

\* C29's case: the last answer of a round of two players has just moved the
\* room into voting
C29_Witness ==
    \E code \in DOMAIN rooms :
        /\ rooms[code].state = "voting"
        /\ rooms[code].answers = EmptyMap
        /\ DOMAIN rooms[code].players = {"a", "b"}
        /\ HasEvent(out, "room:players")
        /\ \E e \in Range(out) :
              e.ev = "game:voting" /\ Len(e.data.answers) = 3

\* the answers given in the rooms of SpecShuffle
ShuffleAnswers == {Paris, Lyon}

\* a room of four players in its first round, with the answers of some of
\* them in
ShuffleRoom(answers) ==
    [code |-> TheCode,
     hostId |-> "h",
     questions |-> <<Q1, Q2>>,
     currentQuestionIndex |-> 0,
     players |-> BoardPlayers,
     answers |-> answers,
     scores |-> EmptyMap,
     state |-> "question"]

ShuffleInit ==
    /\ \E S \in SUBSET DOMAIN BoardPlayers :
          \E answers \in [S -> ShuffleAnswers] :
              /\ rooms = With(EmptyMap, TheCode, ShuffleRoom(answers))
              /\ submitted = With(EmptyMap, TheCode, answers)
    /\ members = With(EmptyMap, TheCode, {"h"} \cup DOMAIN BoardPlayers)
    /\ connected = {"h"} \cup DOMAIN BoardPlayers
    /\ out = <<>>
    /\ offered = With(EmptyMap, TheCode, <<>>)
    /\ step = 0

ShuffleShow ==
    /\ HostAction("h", [code |-> TheCode, action |-> "show_voting"])
    /\ UNCHANGED step

SpecShuffle == ShuffleInit /\ [][ShuffleShow]_vars

\* C30: the shuffle of the voting options is a permutation: whatever indices
\* j the loop draws, the list it leaves holds the entries of the list it was
\* given, each as many times, and every position of the list is one the
\* correct entry can end in; the options a room is sent are such a list.
C30_ShuffleIsPermutation ==
    \A code \in DOMAIN rooms :
        /\ rooms[code].state = "question"
           => LET before == votingOptions(rooms, code)
              IN  /\ \A after \in Shuffle(before) : SameMultiset(before, after)
                  /\ \A p \in DOMAIN before :
                        \E after \in Shuffle(before) :
                            after[p] = before[Len(before)]
        /\ rooms[code].state = "voting"
           => \A e \in Range(out) :
                 e.ev = "game:voting"
                 => SameMultiset(e.data.answers, offered[code])

\* C30's case: a room of four answers has been sent its five options, the
\* correct one moved from the last place to the first
C30_Witness ==
    /\ rooms[TheCode].state = "voting"
    /\ \E e \in Range(out) :
          /\ e.ev = "game:voting"
          /\ Len(e.data.answers) = 5
          /\ e.data.answers[1].isCorrect

---------------------------------------------------------------------------
(* C31: the operations of the room store, applied to the stores they build *)

\* the connections, names, answers, updates and codes the operations are
\* given
StoreConns == {"a", "b"}
StoreNames == {Ann, Blank}
StoreAnswers == {Paris, LyonPadded}
StoreUpdates ==
    {[state |-> "question"],
     [state |-> "voting", currentQuestionIndex |-> 1]}
StoreCodes == {TheCode, NoSuchCode}

\* the store after createRoom
StoreInit ==
    /\ rooms = createRoom(EmptyMap, TheCode, "h", <<Q1, Q2>>)
    /\ members = With(EmptyMap, TheCode, {"h"})
    /\ connected = {"h"} \cup StoreConns
    /\ out = <<>>
    /\ submitted = With(EmptyMap, TheCode, EmptyMap)
    /\ offered = With(EmptyMap, TheCode, <<>>)
    /\ step = 0

StoreFrame == UNCHANGED <<members, connected, out, submitted, offered, step>>

StoreAddPlayer ==
    /\ \E code \in StoreCodes, c \in StoreConns, name \in StoreNames :
          rooms' = addPlayerToRoom(rooms, code, c, name)
    /\ StoreFrame

StoreRemovePlayer ==
    /\ \E code \in StoreCodes, c \in StoreConns :
          rooms' = removePlayerFromRoom(rooms, code, c)
    /\ StoreFrame

StoreSubmitAnswer ==
    /\ \E code \in StoreCodes, c \in StoreConns, answer \in StoreAnswers :
          rooms' = submitAnswer(rooms, code, c, answer)
    /\ StoreFrame

StoreClearAnswers ==
    /\ \E code \in StoreCodes : rooms' = clearAnswers(rooms, code)
    /\ StoreFrame

StoreUpdateRoom ==
    /\ \E code \in StoreCodes, updates \in StoreUpdates :
          rooms' = updateRoom(rooms, code, updates)
    /\ StoreFrame

StoreDeleteRoom ==
    /\ \E code \in StoreCodes : rooms' = deleteRoom(rooms, code)
    /\ StoreFrame

StoreUpdateScore ==
    /\ \E code \in StoreCodes, c \in StoreConns :
          /\ hasRoom(rooms, code)
             => ScoreOf(rooms[code], c) + VotePoints
                   <= MaxCorrectVotes * VotePoints
          /\ rooms' = updatePlayerScore(rooms, code, c, VotePoints)
    /\ StoreFrame

StoreNext ==
    \/ StoreAddPlayer
    \/ StoreRemovePlayer
    \/ StoreSubmitAnswer
    \/ StoreClearAnswers
    \/ StoreUpdateRoom
    \/ StoreDeleteRoom
    \/ StoreUpdateScore

SpecStore == StoreInit /\ [][StoreNext]_vars

\* addPlayer, removePlayer, submitAnswer, clearAnswers, updateRoom and
\* deleteRoom applied twice with the same arguments leave the store R as
\* applied once
IdempotentButScore(R) ==
    \A code \in StoreCodes :
        /\ \A c \in StoreConns :
              /\ \A name \in StoreNames :
                    addPlayerToRoom(addPlayerToRoom(R, code, c, name),
                                    code, c, name)
                      = addPlayerToRoom(R, code, c, name)
              /\ removePlayerFromRoom(removePlayerFromRoom(R, code, c), code, c)
                   = removePlayerFromRoom(R, code, c)
              /\ \A answer \in StoreAnswers :
                    submitAnswer(submitAnswer(R, code, c, answer),
                                 code, c, answer)
                      = submitAnswer(R, code, c, answer)
        /\ clearAnswers(clearAnswers(R, code), code) = clearAnswers(R, code)
        /\ \A updates \in StoreUpdates :
              updateRoom(updateRoom(R, code, updates), code, updates)
                = updateRoom(R, code, updates)
        /\ deleteRoom(deleteRoom(R, code), code) = deleteRoom(R, code)

\* C31 (as stated): every store operation other than code generation and
\* creation, updateScore included, applied twice in a row with the same
\* arguments leaves the store as applied once.
C31_StoreOpsIdempotent ==
    /\ IdempotentButScore(rooms)
    /\ \A code \in StoreCodes, c \in StoreConns :
          updatePlayerScore(updatePlayerScore(rooms, code, c, VotePoints),
                            code, c, VotePoints)
            = updatePlayerScore(rooms, code, c, VotePoints)

\* C31 (amended): addPlayer, removePlayer, submitAnswer, clearAnswers,
\* updateRoom and deleteRoom are idempotent; updateScore is idempotent only
\* where it is a no-op (unknown room or player), and otherwise its second
\* application adds the points a second time.
C31_StoreOpsIdempotentButScore ==
    /\ IdempotentButScore(rooms)
    /\ \A code \in StoreCodes, c \in StoreConns :
          LET once == updatePlayerScore(rooms, code, c, VotePoints)
              twice == updatePlayerScore(once, code, c, VotePoints)
          IN  IF hasRoom(rooms, code) /\ KnowsPlayer(rooms[code], c)
              THEN /\ ScoreOf(once[code], c)
                        = ScoreOf(rooms[code], c) + VotePoints
                   /\ ScoreOf(twice[code], c)
                        = ScoreOf(rooms[code], c) + 2 * VotePoints
                   /\ twice # once
              ELSE once = rooms /\ twice = rooms

\* C31's case: a store whose room has been updated, with a player whose
\* answer is in and whose score was added to twice, and a player of blank name
C31_Witness ==
    /\ hasRoom(rooms, TheCode)
    /\ rooms[TheCode].state = "voting"
    /\ rooms[TheCode].players = [c \in {"a", "b"} |->
                                    IF c = "a" THEN Ann ELSE <<>>]
    /\ DOMAIN rooms[TheCode].answers = {"a"}
    /\ ScoreOf(rooms[TheCode], "a") = 2 * VotePoints

---------------------------------------------------------------------------
(* C32..C37: invariants of the rooms that the handlers keep *)

\* C32: in every reachable state of every room created through room:create,
\* currentQuestionIndex < questions.length: the room has a current question
\* for vote, show_voting, reveal and the join replay to read, and start never
\* answers that no question is left.
C32_CurrentQuestionDefined ==
    /\ \A code \in DOMAIN rooms :
          /\ rooms[code].currentQuestionIndex < Len(rooms[code].questions)
          /\ HasCurrentQuestion(rooms[code])
    /\ \A e \in Range(out) :
          e.ev = "error" => e.data.message # ErrNoMoreQuestions

\* C32's case: a room of one question has been played to its end, its index
\* still on that question
C32_Witness ==
    \E code \in DOMAIN rooms :
        /\ Len(rooms[code].questions) = 1
        /\ rooms[code].currentQuestionIndex = 0
        /\ rooms[code].state = "complete"
        /\ HasEvent(out, "game:complete")

\* C33: in every reachable state of every room, answers is non-empty only
\* while the phase is question: in waiting, voting, revealing and complete
\* the answers map is empty.
C33_AnswersOnlyInQuestion ==
    \A code \in DOMAIN rooms :
        rooms[code].state # "question" => rooms[code].answers = EmptyMap

\* C34: between two consecutive broadcasts of game:question to a room (one
\* round), game:voting is broadcast to the room at most once, whatever host
\* actions and submissions occur.  Stated for the rounds that next opens
\* (the index of the room is positive from the broadcast of their question
\* on): a step that broadcasts the options, by show_voting or by the
\* auto-advance, is taken only when no options were broadcast since that
\* question.
C34_OneVotingBroadcastPerRound ==
    [][\A code \in DOMAIN rooms :
          (/\ rooms[code].currentQuestionIndex > 0
           /\ \/ HostDid(code, "show_voting") /\ ~HasEvent(out', "error")
              \/ /\ SomeoneSubmitted(code)
                 /\ rooms[code].state = "question"
                 /\ rooms'[code].state = "voting")
          => offered[code] = <<>>]_vars

\* C35: in every reachable state, the cumulative score of every connection is
\* at most 10 * (currentQuestionIndex + 1): a connection gains at most 10
\* points for each round played.
C35_TenPointsPerRoundAtMost ==
    \A code \in DOMAIN rooms :
        \A c \in DOMAIN rooms[code].scores :
            rooms[code].scores[c]
              <= 10 * (rooms[code].currentQuestionIndex + 1)

\* C36: in every state reachable through the handlers, every key of a room's
\* scores is a key of its players and every stored score is a positive
\* multiple of 10; and no step lowers or removes a score.
C36_ScoresOfPlayersInTens ==
    /\ [](\A code \in DOMAIN rooms :
             /\ DOMAIN rooms[code].scores \subseteq DOMAIN rooms[code].players
             /\ \A c \in DOMAIN rooms[code].scores :
                   /\ rooms[code].scores[c] > 0
                   /\ rooms[code].scores[c] % 10 = 0)
    /\ [][\A code \in DOMAIN rooms :
             /\ code \in DOMAIN rooms'
             /\ \A c \in DOMAIN rooms[code].scores :
                   /\ c \in DOMAIN rooms'[code].scores
                   /\ rooms'[code].scores[c] >= rooms[code].scores[c]]_vars

\* C36's case: two players of a room have scored, one of them twice, and the
\* one who scored once has closed its socket
C36_Witness ==
    \E code \in DOMAIN rooms :
        /\ DOMAIN rooms[code].scores = {"a", "b"}
        /\ rooms[code].scores["a"] = 20
        /\ rooms[code].scores["b"] = 10
        /\ "b" \notin connected

\* C37: in every reachable state, a room in phase complete has its
\* currentQuestionIndex on its last question, questions.length - 1.
C37_CompleteOnLastQuestion ==
    \A code \in DOMAIN rooms :
        rooms[code].state = "complete"
        => rooms[code].currentQuestionIndex = Len(rooms[code].questions) - 1

\* C37's case: a room of two questions in which a player has scored has been
\* ended by next on its second question
C37_Witness ==
    \E code \in DOMAIN rooms :
        /\ rooms[code].state = "complete"
        /\ Len(rooms[code].questions) = 2
        /\ rooms[code].currentQuestionIndex = 1
        /\ ScoreOf(rooms[code], "a") = 10
        /\ HasEvent(out, "game:complete")

---------------------------------------------------------------------------
(* C38..C40: submissions of every player, isolation of the rooms, progress *)

\* C38: while the phase is question, an answer:submit with a schema-valid
\* payload sent by a connection that is a key of the room's players is
\* recorded: after the handler that connection is a key of answers, or the
\* room has gone to voting with that answer among the options broadcast.
\* This for every name the join schema accepts, names that are empty after
\* trimming included.
C38_EveryPlayersAnswerRecorded ==
    [][\A c \in Conns, code \in DOMAIN rooms, answer \in AllAnswers :
          (/\ rooms[code].state = "question"
           /\ c \in DOMAIN rooms[code].players
           /\ submitAnswerSchema([code |-> code, answer |-> answer])
           /\ AnswerSubmit(c, [code |-> code, answer |-> answer]))
          => \/ c \in DOMAIN rooms'[code].answers
             \/ /\ rooms'[code].state = "voting"
                /\ \E e \in Range(out') :
                      /\ e.ev = "game:voting"
                      /\ \E i \in DOMAIN e.data.answers :
                            e.data.answers[i]
                              = [answer |-> Trim(answer),
                                 isCorrect |-> FALSE]]_vars

\* Two rooms side by side: h and a create rooms of one question, a joins,
\* submits and votes, h and a send host actions, each for either room
RoomsDraws == {0, 1}
RoomsHosts == {"h", "a"}
RoomsPlayers == {"a"}

RoomsCreate ==
    /\ \E c \in RoomsHosts : RoomCreate(c, OneQuestion, RoomsDraws)
    /\ UNCHANGED step

RoomsJoin ==
    /\ \E c \in RoomsPlayers, code \in DOMAIN rooms :
        RoomJoin(c, [code |-> code, name |-> Ann])
    /\ UNCHANGED step

RoomsSubmit ==
    /\ \E c \in RoomsPlayers, code \in DOMAIN rooms :
        AnswerSubmit(c, [code |-> code, answer |-> Lyon])
    /\ UNCHANGED step

RoomsVote ==
    /\ \E c \in RoomsPlayers, code \in DOMAIN rooms :
        AnswerVote(c, [code |-> code, selectedAnswer |-> Paris])
    /\ UNCHANGED step

RoomsHost ==
    /\ \E c \in RoomsHosts, code \in DOMAIN rooms, action \in Actions :
        HostAction(c, [code |-> code, action |-> action])
    /\ UNCHANGED step

RoomsNext ==
    RoomsCreate \/ RoomsJoin \/ RoomsSubmit \/ RoomsVote \/ RoomsHost

SpecRooms == Init /\ [][RoomsNext]_vars

\* some connection sent a join, a submission, a vote or a host action that
\* carries code, and this step is what its handler did
IntentFor(code) ==
    \E c \in RoomsHosts \cup RoomsPlayers :
        \/ RoomJoin(c, [code |-> code, name |-> Ann])
        \/ AnswerSubmit(c, [code |-> code, answer |-> Lyon])
        \/ AnswerVote(c, [code |-> code, selectedAnswer |-> Paris])
        \/ \E action \in Actions :
              HostAction(c, [code |-> code, action |-> action])

\* C39: rooms are isolated: a join, submission, vote or host action that
\* carries a code changes no field of a room with another code, also when
\* its sender is the host or a player of that other room.
C39_RoomsIsolated ==
    [][\A code \in DOMAIN rooms :
          IntentFor(code)
          => \A other \in DOMAIN rooms \ {code} :
                rooms'[other] = rooms[other]]_vars

\* C39's case: a, who has answered and scored in h's room, has started its
\* own room, and h's room is in its voting phase as before
C39_Witness ==
    \E code, other \in DOMAIN rooms :
        /\ rooms[code].hostId = "h"
        /\ rooms[code].state = "voting"
        /\ ScoreOf(rooms[code], "a") = 10
        /\ rooms[other].hostId = "a"
        /\ rooms[other].state = "question"
        /\ rooms[other].scores = EmptyMap
        /\ HasEvent(out, "game:question")

\* The game of one room whose host sends, in every phase, the action the
\* phase table allows there, while the players join, submit and vote as they
\* please
AllowedAction(state) ==
    CASE state = "waiting" -> "start"
      [] state = "question" -> "show_voting"
      [] state = "voting" -> "reveal"
      [] state = "revealing" -> "next"

\* the number of game:question events among o that went to the whole room
QuestionBroadcasts(o, M) ==
    Len(SelectSeq(o, LAMBDA e : e.ev = "game:question" /\ e.to = M[TheCode]))

\* step counts the broadcasts of game:question
CountBroadcasts == step' = step + QuestionBroadcasts(out', members')

ProgressCreate ==
    /\ RoomCreate("h", [questions |-> <<Q1, Q2>>], Draws)
    /\ CountBroadcasts

ProgressJoin ==
    /\ \E c \in {"a", "b"} :
          RoomJoin(c, [code |-> TheCode, name |-> ScenarioName(c)])
    /\ CountBroadcasts

ProgressSubmit ==
    /\ \E c \in {"a", "b"} :
          AnswerSubmit(c, [code |-> TheCode, answer |-> ScenarioAnswer(c)])
    /\ CountBroadcasts

ProgressVote ==
    /\ \E c \in {"a", "b"}, selected \in VoteInputs :
          AnswerVote(c, [code |-> TheCode, selectedAnswer |-> selected])
    /\ CountBroadcasts

ProgressHost ==
    /\ hasRoom(rooms, TheCode)
    /\ rooms[TheCode].state # "complete"
    /\ HostAction("h", [code |-> TheCode,
                        action |-> AllowedAction(rooms[TheCode].state)])
    /\ CountBroadcasts

ProgressNext ==
    \/ ProgressCreate
    \/ ProgressJoin
    \/ ProgressSubmit
    \/ ProgressVote
    \/ ProgressHost

\* the host's socket stays open and its next action is eventually sent
SpecProgress == Init /\ [][ProgressNext]_vars /\ WF_vars(ProgressHost)

\* C40: if the host keeps sending the action the phase table allows for the
\* current phase, then under weak fairness of the host's actions the room
\* eventually reaches phase complete, and on the way game:question is
\* broadcast exactly once for each index 1..questions.length, in increasing
\* order: every broadcast carries the index following the number of
\* broadcasts before it, and a complete room has had questions.length of them.
C40_HostDrivesGameToComplete ==
    /\ hasRoom(rooms, TheCode)
         ~> (hasRoom(rooms, TheCode) /\ rooms[TheCode].state = "complete")
    /\ [][\A e \in Range(out') :
             (e.ev = "game:question" /\ e.to = members'[TheCode])
             => /\ e.data.questionIndex = step + 1
                /\ step' = step + 1]_vars
    /\ [](hasRoom(rooms, TheCode) /\ rooms[TheCode].state = "complete"
          => step = Len(rooms[TheCode].questions))

\* C40's case: the room of two questions and two players is complete after
\* two broadcasts of a question, both players having scored
C40_Witness ==
    /\ hasRoom(rooms, TheCode)
    /\ rooms[TheCode].state = "complete"
    /\ step = 2
    /\ DOMAIN rooms[TheCode].scores = {"a", "b"}
    /\ HasEvent(out, "game:complete")

====
